---- MODULE Spec2Model ----
(***************************************************************************)
(* Bucket deletion workflows of the S3 resource admin server.              *)
(*                                                                         *)
(* The provider (S3 and S3 Control) holds the durable state: the buckets,  *)
(* their objects and their access points.  The server holds no state of    *)
(* its own besides the configured account id; every request is a sequence  *)
(* of awaited provider calls, and requests interleave at their awaits.     *)
(* One step of the model is one provider call of one request together with *)
(* the synchronous code that follows it up to the next await or the reply. *)
(*                                                                         *)
(* Spec specifies the two bucket-delete routes.  The operations that do    *)
(* not interact with them have specifications of their own over the same   *)
(* variables: NamingSpec (validateBucketName, fileKeySchema and the check  *)
(* each route runs on its bucket name), UploadSpec (uploadFile), ListSpec  *)
(* (listBuckets), CreateSpec (POST /buckets), LoopSpec (the access-point   *)
(* loop of forced delete, call by call), SizeSpec (calculateBucketSize),   *)
(* DownloadSpec (the download route), KeySpec (object keys from the client *)
(* to the file routes) and TypeSpec (validateFileType).                    *)
(***************************************************************************)
EXTENDS Integers, Sequences, FiniteSets, TLC

\* ---------------------------------------------------------------- bounds
MaxObjects == 2
MaxAccessPoints == 2
MaxRequests == 1

Buckets == {"demo"}
Keys == 1..MaxObjects
ApNames == 1..MaxAccessPoints
Requests == 1..MaxRequests

VARIABLES
    buckets,        \* provider: the buckets that exist
    objects,        \* provider: bucket -> set of object keys
    accessPoints,   \* provider: bucket -> its access points, in listing order
    accountId,      \* process.env.AWS_ACCOUNT_ID ("" when unset)
    op,             \* request -> the route it runs ("none" when the slot is free)
    pc,             \* request -> the await it is parked at
    bucketName,     \* request -> request.params.name
    apList,         \* request -> local `accessPoints` (result of listAccessPoints)
    apIdx,          \* request -> number of completed iterations of the for-of loop
    calls,          \* request -> provider calls issued so far, with their outcomes
    caught,         \* request -> the provider error caught at s3Service.js:138
    error,          \* request -> the Error the service method threw (NoError if none)
    reply,          \* request -> the HTTP reply of the route (NoReply before it is sent)
    removed,        \* request -> access points this request removed at the provider
    atReturn,       \* request -> provider state of its bucket right before its last
                    \*            step and right after its reply
    lastDestroy,    \* provider state of the bucket last destroyed, at destruction
    candidate,      \* validators: the value handed to a validator or a route
    verdict,        \* validators: what the validator or the route did with it
    contents,       \* uploads: the objects of one bucket, with their bodies
    uploads,        \* uploads: the uploadFile calls that completed, oldest first
    listing,        \* listBuckets: the call and what it returned
    creation,       \* POST /buckets: the request and its reply
    sizing,         \* calculateBucketSize: the call, its loop and its result
    download        \* GET /buckets/:bucket/files/:key: the request and its reply

\* The deletion workflows, and the state of the operations specified apart
\* from them (validators, uploads, listBuckets, POST /buckets, the size of a
\* bucket, downloads).
deletion == <<buckets, objects, accessPoints, accountId, op, pc, bucketName,
              apList, apIdx, calls, caught, error, reply, removed, atReturn,
              lastDestroy>>

aside == <<candidate, verdict, contents, uploads, listing, creation, sizing,
           download>>

vars == <<deletion, aside>>

provider == <<buckets, objects, accessPoints>>

\* ------------------------------------------------------- message templates
\* A message is the sequence of the parts of its template literal: literal
\* text, an interpolated number, an interpolated access-point name.
Lit(s) == [t |-> "lit", s |-> s, n |-> 0]
Num(n) == [t |-> "num", s |-> "", n |-> n]
Name(a) == [t |-> "name", s |-> "", n |-> a]

RECURSIVE JoinNames(_)
JoinNames(aps) ==
    IF aps = <<>> THEN <<>>
    ELSE IF Len(aps) = 1 THEN <<Name(aps[1])>>
    ELSE <<Name(aps[1]), Lit(", ")>> \o JoinNames(Tail(aps))

\* The literal texts that contain each needle the code searches for.
Containing(needle) ==
    CASE needle = "access points attached" ->
            {"Bucket has access points attached",
             "Bucket has access points attached and cannot be deleted. Please set AWS_ACCOUNT_ID environment variable to enable access point management."}
      [] needle = "contains objects" ->
            {"Cannot delete bucket that contains objects"}
      [] needle = "not found" -> {}
      [] needle = "not allowed" -> {" is not allowed"}
      [] needle = "does not exist" ->
            {"The specified bucket does not exist",
             "The specified accesspoint does not exist",
             "The specified key does not exist."}
      [] needle = "already exists" -> {"Bucket name already exists"}
      [] needle = "already owned" -> {"Bucket already owned by you"}
      [] needle = "AWS_ACCOUNT_ID" ->
            {"Bucket has access points attached and cannot be deleted. Please set AWS_ACCOUNT_ID environment variable to enable access point management.",
             "AWS_ACCOUNT_ID environment variable is required for access point management"}
      [] OTHER -> {}

Includes(message, needle) ==
    \E i \in 1..Len(message) :
        message[i].t = "lit" /\ message[i].s \in Containing(needle)

\* ----------------------------------------------------------------- errors
NoCode == "none"
NoError == [thrown |-> FALSE, message |-> <<>>, code |-> NoCode, accessPoints |-> <<>>]
NoReply == [status |-> 0, success |-> FALSE, message |-> <<>>, code |-> NoCode,
            accessPoints |-> <<>>]

\* new Error(message)
NewError(message) ==
    [thrown |-> TRUE, message |-> message, code |-> NoCode, accessPoints |-> <<>>]

\* new Error(`${prefix}${error.message}`): only the message of the cause is kept
Wrap(prefix, cause) == NewError(<<Lit(prefix)>> \o cause.message)

\* The message of the error the SDK throws for a failed provider call.
ProviderMessage(outcome) ==
    CASE outcome = "AccessPointsAttached" -> <<Lit("Bucket has access points attached")>>
      [] outcome = "BucketNotEmpty" -> <<Lit("The bucket you tried to delete is not empty")>>
      [] outcome = "NoSuchBucket" -> <<Lit("The specified bucket does not exist")>>
      [] outcome = "NoSuchAccessPoint" -> <<Lit("The specified accesspoint does not exist")>>
      [] outcome = "NoSuchKey" -> <<Lit("The specified key does not exist.")>>
      [] outcome = "BucketAlreadyExists" -> <<Lit("The requested bucket name is not available")>>
      [] outcome = "BucketAlreadyOwnedByYou" -> <<Lit("Your previous request to create the named bucket succeeded and you already own it")>>
      [] outcome = "AccessDenied" -> <<Lit("Access Denied")>>
      [] OTHER -> <<Lit("Service Unavailable")>>

ProviderError(outcome) == NewError(ProviderMessage(outcome))

\* --------------------------------------------------------------- provider
\* Outcomes of the provider calls in the current provider state.  Every call
\* can also fail for a reason of the transport or the service itself.
ListObjectsOutcomes(b) ==
    (IF b \in buckets THEN {"ok"} ELSE {"NoSuchBucket"}) \cup {"ServiceUnavailable"}

DeleteBucketOutcomes_Unchecked(b) ==
    (IF b \in buckets THEN {"ok"} ELSE {"NoSuchBucket"}) \cup {"ServiceUnavailable"}

DeleteBucketOutcomes(b) ==
    (IF b \in buckets /\ objects[b] = {} /\ accessPoints[b] = <<>> THEN {"ok"} ELSE {})
    \cup (IF b \in buckets /\ accessPoints[b] # <<>> THEN {"AccessPointsAttached"} ELSE {})
    \cup (IF b \in buckets /\ objects[b] # {} THEN {"BucketNotEmpty"} ELSE {})
    \cup (IF b \notin buckets THEN {"NoSuchBucket"} ELSE {})
    \cup {"ServiceUnavailable"}

ListAccessPointsOutcomes(b) == {"ok", "ServiceUnavailable"}

Attached(a) == \E b \in Buckets : \E i \in 1..Len(accessPoints[b]) : accessPoints[b][i] = a

DeleteAccessPointOutcomes(a) ==
    (IF Attached(a) THEN {"ok"} ELSE {"NoSuchAccessPoint"}) \cup {"ServiceUnavailable"}

Without(seq, a) == SelectSeq(seq, LAMBDA x : x # a)

\* A provider call as issued: the command, its access-point argument (0 when
\* it has none), its outcome, and for a listing call the number of entries
\* the provider held when it served the call (0 for the other calls).
Call(cmd, arg, outcome, held) ==
    [cmd |-> cmd, arg |-> arg, outcome |-> outcome, held |-> held]

\* ------------------------------------------------------------ listBuckets
\* One entry per bucket the provider lists; a bucket whose enrichment failed
\* is returned with the basic information only.
BucketDetails_FailureIgnored(b, failed) ==
    [name |-> b, region |-> "us-east-1",
     objectCount |-> IF objects[b] = {} THEN 0 ELSE 1,
     hasObjects |-> objects[b] # {}]

BucketDetails(b, failed) ==
    IF failed
    THEN [name |-> b, region |-> "unknown", objectCount |-> 0, hasObjects |-> FALSE]
    ELSE [name |-> b, region |-> "us-east-1",
          objectCount |-> IF objects[b] = {} THEN 0 ELSE 1,
          hasObjects |-> objects[b] # {}]

ListBuckets(failing) == {BucketDetails(b, b \in failing) : b \in buckets}

ListedNames == {r.name : r \in ListBuckets({})}

\* ------------------------------------------------------ service: messages
NotEmptyError == NewError(<<Lit("Cannot delete bucket that contains objects")>>)

AccountIdMissingError ==
    NewError(<<Lit("Bucket has access points attached and cannot be deleted. Please set AWS_ACCOUNT_ID environment variable to enable access point management.")>>)

\* The custom error of deleteBucket that carries the blocking access points.
HasAccessPointsError(list) ==
    [thrown |-> TRUE,
     message |-> <<Lit("Bucket has "), Num(Len(list)), Lit(" access point(s) attached: ")>>
                 \o JoinNames(list)
                 \o <<Lit(". These must be deleted before the bucket can be removed.")>>,
     code |-> "BUCKET_HAS_ACCESS_POINTS",
     accessPoints |-> list]

\* catch (accessPointError) of deleteBucket
CheckAccessPointsCatch(e) ==
    IF e.code = "BUCKET_HAS_ACCESS_POINTS" THEN e
    ELSE Wrap("Failed to check access points: ", e)

\* the outer catch of deleteBucket
DeleteBucketCatch(e) == Wrap("Failed to delete bucket: ", e)

DeleteAccessPointCatch_Unnamed(a, e) ==
    NewError(<<Lit("Failed to delete access point: ")>> \o e.message)

\* the catch of deleteAccessPoint
DeleteAccessPointCatch(a, e) ==
    NewError(<<Lit("Failed to delete access point "), Name(a), Lit(": ")>> \o e.message)

\* the catch of deleteBucketWithAccessPoints
DeleteBucketWithAccessPointsCatch(e) ==
    Wrap("Failed to delete bucket with access points: ", e)

ForcedSuccessMessage_Plain(n) == <<Lit("Bucket deleted successfully")>>

\* the success message of deleteBucketWithAccessPoints
ForcedSuccessMessage(n) ==
    IF n > 0
    THEN <<Lit("Bucket deleted successfully after removing "), Num(n), Lit(" access point(s)")>>
    ELSE <<Lit("Bucket deleted successfully")>>

HasContents_Skipped(b) == FALSE

HasContents_Inverted(b) == objects[b] = {}

\* `objectsResponse.Contents && objectsResponse.Contents.length > 0`
HasContents(b) == objects[b] # {}

AfterListing_LoopSkipped(list) == "DeleteBucket"

\* `if (accessPoints.length > 0)` of deleteBucketWithAccessPoints: the loop
\* runs before the bucket is deleted
AfterListing(list) == IF Len(list) > 0 THEN "DeleteAccessPoint" ELSE "DeleteBucket"

DeleteAccessPointThrows_Swallowed(outcome) == FALSE

\* deleteAccessPoint rethrows the failure of its provider call
DeleteAccessPointThrows(outcome) == outcome # "ok"

AfterReport_Cleared(attached, list) ==
    SelectSeq(attached, LAMBDA a : \A i \in 1..Len(list) : list[i] # a)

\* deleteBucket reports the access points it listed and deletes none of them
AfterReport(attached, list) == attached

\* listAccessPoints: the provider's list, or the empty list when the call fails
ListAccessPointsResult(outcome, b) == IF outcome = "ok" THEN accessPoints[b] ELSE <<>>

\* ----------------------------------------------------------- route replies
Success(message) ==
    [status |-> 200, success |-> TRUE, message |-> message, code |-> NoCode,
     accessPoints |-> <<>>]

Failure(status, message) ==
    [status |-> status, success |-> FALSE, message |-> message, code |-> NoCode,
     accessPoints |-> <<>>]

\* catch of DELETE /buckets/:name
PlainDeleteReply(e) ==
    IF Includes(e.message, "contains objects") THEN Failure(409, e.message)
    ELSE IF Includes(e.message, "not found") \/ Includes(e.message, "does not exist")
    THEN Failure(404, <<Lit("Bucket not found")>>)
    ELSE IF e.code = "BUCKET_HAS_ACCESS_POINTS"
    THEN [status |-> 409, success |-> FALSE, message |-> e.message,
          code |-> "BUCKET_HAS_ACCESS_POINTS", accessPoints |-> e.accessPoints]
    ELSE Failure(500, e.message)

\* catch of DELETE /buckets/:name/force
ForceDeleteReply(e) ==
    IF Includes(e.message, "contains objects") THEN Failure(409, e.message)
    ELSE Failure(500, e.message)

AccountIdUnset_Unchecked(id) == FALSE

\* `if (!accountId)` of DELETE /buckets/:name/force
AccountIdUnset(id) == id = ""

AccountIdRequiredReply ==
    Failure(400, <<Lit("AWS_ACCOUNT_ID environment variable is required for access point management")>>)

\* ------------------------------------------------------------------- Init
NoDestroy == [happened |-> FALSE, by |-> "none", objs |-> 0, aps |-> 0]
NoAtReturn == [before |-> [exists |-> FALSE, objs |-> 0, aps |-> 0],
               exists |-> FALSE, aps |-> <<>>, attached |-> {}, listed |-> {}]

\* Sequences of distinct access-point names: what a listing can return.
ApLists ==
    {l \in UNION {[1..n -> ApNames] : n \in 0..MaxAccessPoints} :
        \A i, j \in 1..Len(l) : i # j => l[i] # l[j]}

\* Nothing is under way in the operations specified apart.
AsideIdle ==
    /\ candidate = <<>> /\ verdict = <<>>
    /\ contents = {} /\ uploads = <<>> /\ sizing = <<>> /\ download = <<>>
    /\ listing = <<>> /\ creation = <<>>

Init ==
    /\ buckets = Buckets
    /\ objects \in [Buckets -> {1..n : n \in 0..MaxObjects}]
    /\ accessPoints \in [Buckets -> ApLists]
    /\ \A a \in ApNames :
           Cardinality({b \in Buckets : \E i \in 1..Len(accessPoints[b]) :
                                            accessPoints[b][i] = a}) <= 1
    /\ accountId \in {"", "123456789012"}
    /\ op = [k \in Requests |-> "none"]
    /\ pc = [k \in Requests |-> "idle"]
    /\ bucketName = [k \in Requests |-> "demo"]
    /\ apList = [k \in Requests |-> <<>>]
    /\ apIdx = [k \in Requests |-> 0]
    /\ calls = [k \in Requests |-> <<>>]
    /\ caught = [k \in Requests |-> NoError]
    /\ error = [k \in Requests |-> NoError]
    /\ reply = [k \in Requests |-> NoReply]
    /\ removed = [k \in Requests |-> {}]
    /\ atReturn = [k \in Requests |-> NoAtReturn]
    /\ lastDestroy = NoDestroy
    /\ AsideIdle

\* --------------------------------------------------------- request frames
\* A handler runs from the response of its last provider call to its reply
\* without yielding: no other handler runs while a reply is being sent.
Running == \A j \in Requests : pc[j] # "done"

Issue(k, call) == calls' = [calls EXCEPT ![k] = Append(@, call)]

\* The route sends its reply: the request is over.
Done(k, b, e, r) ==
    /\ pc' = [pc EXCEPT ![k] = "done"]
    /\ error' = [error EXCEPT ![k] = e]
    /\ reply' = [reply EXCEPT ![k] = r]
    /\ atReturn' = [atReturn EXCEPT ![k] =
                       [before |-> [exists |-> b \in buckets,
                                    objs |-> Cardinality(objects[b]),
                                    aps |-> Len(accessPoints[b])],
                        exists |-> b \in buckets',
                        aps |-> accessPoints'[b],
                        attached |-> {a \in ApNames : Attached(a)'},
                        listed |-> ListedNames']]

\* The request parks at its next await.
Await(k, next) ==
    /\ pc' = [pc EXCEPT ![k] = next]
    /\ UNCHANGED <<error, reply, atReturn>>

\* The provider deletes bucket b on behalf of request k.
Destroy(k, b) ==
    /\ buckets' = buckets \ {b}
    /\ lastDestroy' = [happened |-> TRUE, by |-> op[k],
                       objs |-> Cardinality(objects[b]),
                       aps |-> Len(accessPoints[b])]
    /\ UNCHANGED <<objects, accessPoints>>

\* --------------------------------------------- DELETE /buckets/:name
PlainDeleteStart(k, b) ==
    /\ Running
    /\ UNCHANGED aside
    /\ op[k] = "none"
    /\ op' = [op EXCEPT ![k] = "deleteBucket"]
    /\ bucketName' = [bucketName EXCEPT ![k] = b]
    /\ pc' = [pc EXCEPT ![k] = "ListObjectsV2"]
    /\ UNCHANGED <<provider, accountId, apList, apIdx, calls, caught, error, reply,
                   removed, atReturn, lastDestroy>>

\* deleteBucket: the emptiness check
PlainListObjects(k) ==
    LET b == bucketName[k] IN
    /\ Running
    /\ UNCHANGED aside
    /\ op[k] = "deleteBucket" /\ pc[k] = "ListObjectsV2"
    /\ \E o \in ListObjectsOutcomes(b) :
        /\ Issue(k, Call("ListObjectsV2", 0, o, Cardinality(objects[b])))
        /\ UNCHANGED <<provider, lastDestroy>>
        /\ IF o # "ok"
           THEN LET e == DeleteBucketCatch(ProviderError(o))
                IN Done(k, b, e, PlainDeleteReply(e))
           ELSE IF HasContents(b)
           THEN LET e == DeleteBucketCatch(NotEmptyError)
                IN Done(k, b, e, PlainDeleteReply(e))
           ELSE Await(k, "DeleteBucket")
    /\ UNCHANGED <<accountId, op, bucketName, apList, apIdx, caught, removed>>

AccountIdAbsent_Ignored(id) == FALSE

\* deleteBucket: `if (!accountId)` once DeleteBucket was refused for the
\* access points attached
AccountIdAbsent(id) == id = ""

\* deleteBucket: the DeleteBucket attempt and the handling of its failure
PlainDeleteBucket(k) ==
    LET b == bucketName[k] IN
    /\ Running
    /\ UNCHANGED aside
    /\ op[k] = "deleteBucket" /\ pc[k] = "DeleteBucket"
    /\ \E o \in DeleteBucketOutcomes(b) :
        /\ Issue(k, Call("DeleteBucket", 0, o, 0))
        /\ IF o = "ok"
           THEN /\ Destroy(k, b)
                /\ Done(k, b, NoError, Success(<<Lit("Bucket deleted successfully")>>))
                /\ UNCHANGED caught
           ELSE /\ UNCHANGED <<provider, lastDestroy>>
                /\ caught' = [caught EXCEPT ![k] = ProviderError(o)]
                /\ IF Includes(ProviderMessage(o), "access points attached")
                   THEN IF AccountIdAbsent(accountId)
                        THEN LET e == DeleteBucketCatch(
                                          CheckAccessPointsCatch(AccountIdMissingError))
                             IN Done(k, b, e, PlainDeleteReply(e))
                        ELSE Await(k, "ListAccessPoints")
                   ELSE LET e == DeleteBucketCatch(ProviderError(o))
                        IN Done(k, b, e, PlainDeleteReply(e))
    /\ UNCHANGED <<accountId, op, bucketName, apList, apIdx, removed>>

NoAccessPointsFound_Swallowed(original) == NoError

\* deleteBucket: no access point was listed, the failure of DeleteBucket is
\* thrown on (`throw error`) into the outer catch
NoAccessPointsFound(original) == DeleteBucketCatch(original)

\* deleteBucket: the access points are listed to inform the user
PlainListAccessPoints(k) ==
    LET b == bucketName[k] IN
    /\ Running
    /\ UNCHANGED aside
    /\ op[k] = "deleteBucket" /\ pc[k] = "ListAccessPoints"
    /\ UNCHANGED <<buckets, objects, lastDestroy>>
    /\ \E o \in ListAccessPointsOutcomes(b) :
        LET list == ListAccessPointsResult(o, b)
            e == IF Len(list) > 0
                 THEN DeleteBucketCatch(CheckAccessPointsCatch(HasAccessPointsError(list)))
                 ELSE NoAccessPointsFound(caught[k])
        IN /\ Issue(k, Call("ListAccessPoints", 0, o, Len(accessPoints[b])))
           /\ apList' = [apList EXCEPT ![k] = list]
           /\ accessPoints' = [accessPoints EXCEPT ![b] = AfterReport(@, list)]
           /\ removed' = [removed EXCEPT ![k] =
                             @ \cup {a \in ApNames : Attached(a) /\ ~Attached(a)'}]
           /\ Done(k, b, e, PlainDeleteReply(e))
    /\ UNCHANGED <<accountId, op, bucketName, apIdx, caught>>

\* --------------------------------------- DELETE /buckets/:name/force
\* The route up to its first await: the account id is required.
ForceDeleteStart(k, b) ==
    /\ Running
    /\ UNCHANGED aside
    /\ op[k] = "none"
    /\ op' = [op EXCEPT ![k] = "forceDelete"]
    /\ bucketName' = [bucketName EXCEPT ![k] = b]
    /\ UNCHANGED <<provider, lastDestroy>>
    /\ IF AccountIdUnset(accountId)
       THEN Done(k, b, NoError, AccountIdRequiredReply)
       ELSE Await(k, "ListAccessPoints")
    /\ UNCHANGED <<accountId, apList, apIdx, calls, caught, removed>>

\* deleteBucketWithAccessPoints: the listing of the access points
ForceListAccessPoints(k) ==
    LET b == bucketName[k] IN
    /\ Running
    /\ UNCHANGED aside
    /\ op[k] = "forceDelete" /\ pc[k] = "ListAccessPoints"
    /\ \E o \in ListAccessPointsOutcomes(b) :
        LET list == ListAccessPointsResult(o, b)
        IN /\ Issue(k, Call("ListAccessPoints", 0, o, Len(accessPoints[b])))
           /\ apList' = [apList EXCEPT ![k] = list]
           /\ apIdx' = [apIdx EXCEPT ![k] = 0]
           /\ Await(k, AfterListing(list))
    /\ UNCHANGED <<provider, lastDestroy, accountId, op, bucketName, caught, removed>>

\* deleteBucketWithAccessPoints: one iteration of the for-of loop
ForceDeleteAccessPoint(k) ==
    LET b == bucketName[k]
        a == apList[k][apIdx[k] + 1]
    IN
    /\ Running
    /\ UNCHANGED aside
    /\ op[k] = "forceDelete" /\ pc[k] = "DeleteAccessPoint"
    /\ \E o \in DeleteAccessPointOutcomes(a) :
        /\ Issue(k, Call("DeleteAccessPoint", a, o, 0))
        /\ UNCHANGED <<buckets, objects, lastDestroy>>
        /\ accessPoints' = IF o = "ok"
                           THEN [x \in Buckets |-> Without(accessPoints[x], a)]
                           ELSE accessPoints
        /\ removed' = [removed EXCEPT ![k] = IF o = "ok" THEN @ \cup {a} ELSE @]
        /\ IF DeleteAccessPointThrows(o)
           THEN LET e == DeleteBucketWithAccessPointsCatch(
                             DeleteAccessPointCatch(a, ProviderError(o)))
                IN /\ UNCHANGED apIdx
                   /\ Done(k, b, e, ForceDeleteReply(e))
           ELSE /\ apIdx' = [apIdx EXCEPT ![k] = @ + 1]
                /\ Await(k, IF apIdx[k] + 1 < Len(apList[k])
                            THEN "DeleteAccessPoint" ELSE "DeleteBucket")
    /\ UNCHANGED <<accountId, op, bucketName, apList, caught>>

\* deleteBucketWithAccessPoints: the bucket is deleted last
ForceDeleteBucket(k) ==
    LET b == bucketName[k] IN
    /\ Running
    /\ UNCHANGED aside
    /\ op[k] = "forceDelete" /\ pc[k] = "DeleteBucket"
    /\ \E o \in DeleteBucketOutcomes(b) :
        /\ Issue(k, Call("DeleteBucket", 0, o, 0))
        /\ IF o = "ok"
           THEN /\ Destroy(k, b)
                /\ Done(k, b, NoError, Success(ForcedSuccessMessage(Len(apList[k]))))
           ELSE LET e == DeleteBucketWithAccessPointsCatch(ProviderError(o))
                IN /\ UNCHANGED <<provider, lastDestroy>>
                   /\ Done(k, b, e, ForceDeleteReply(e))
    /\ UNCHANGED <<accountId, op, bucketName, apList, apIdx, caught, removed>>

\* ------------------------------------------------------ the other actors
requests == <<op, pc, bucketName, apList, apIdx, calls, caught, error, reply,
              removed, atReturn>>

\* uploadFile: PutObject creates the object at the key.  The deletion
\* workflows see the objects of a bucket only through their number, so the
\* keys in use are kept to 1..n: the next upload takes key n + 1.
UploadFile(b, key) ==
    /\ Running
    /\ UNCHANGED aside
    /\ b \in buckets
    /\ key = Cardinality(objects[b]) + 1
    /\ objects' = [objects EXCEPT ![b] = @ \cup {key}]
    /\ UNCHANGED <<buckets, accessPoints, accountId, requests, lastDestroy>>

\* deleteFile: DeleteObject removes the object at the key
DeleteFile(b, key) ==
    /\ Running
    /\ UNCHANGED aside
    /\ b \in buckets
    /\ key = Cardinality(objects[b])
    /\ objects' = [objects EXCEPT ![b] = @ \ {key}]
    /\ UNCHANGED <<buckets, accessPoints, accountId, requests, lastDestroy>>

\* Access points are created outside this system.
CreateAccessPoint(b, a) ==
    /\ Running
    /\ UNCHANGED aside
    /\ b \in buckets
    /\ ~Attached(a)
    /\ accessPoints' = [accessPoints EXCEPT ![b] = Append(@, a)]
    /\ UNCHANGED <<buckets, objects, accountId, requests, lastDestroy>>

\* The reply has been sent; the slot can serve the next request.
Return(k) ==
    /\ pc[k] = "done"
    /\ UNCHANGED aside
    /\ op' = [op EXCEPT ![k] = "none"]
    /\ pc' = [pc EXCEPT ![k] = "idle"]
    /\ apList' = [apList EXCEPT ![k] = <<>>]
    /\ apIdx' = [apIdx EXCEPT ![k] = 0]
    /\ calls' = [calls EXCEPT ![k] = <<>>]
    /\ caught' = [caught EXCEPT ![k] = NoError]
    /\ error' = [error EXCEPT ![k] = NoError]
    /\ reply' = [reply EXCEPT ![k] = NoReply]
    /\ removed' = [removed EXCEPT ![k] = {}]
    /\ atReturn' = [atReturn EXCEPT ![k] = NoAtReturn]
    /\ bucketName' = [bucketName EXCEPT ![k] = "demo"]
    /\ UNCHANGED <<provider, accountId, lastDestroy>>

Next ==
    \/ \E k \in Requests, b \in Buckets : PlainDeleteStart(k, b)
    \/ \E k \in Requests : PlainListObjects(k)
    \/ \E k \in Requests : PlainDeleteBucket(k)
    \/ \E k \in Requests : PlainListAccessPoints(k)
    \/ \E k \in Requests, b \in Buckets : ForceDeleteStart(k, b)
    \/ \E k \in Requests : ForceListAccessPoints(k)
    \/ \E k \in Requests : ForceDeleteAccessPoint(k)
    \/ \E k \in Requests : ForceDeleteBucket(k)
    \/ \E b \in Buckets, key \in Keys : UploadFile(b, key)
    \/ \E b \in Buckets, key \in Keys : DeleteFile(b, key)
    \/ \E b \in Buckets, a \in ApNames : CreateAccessPoint(b, a)
    \/ \E k \in Requests : Return(k)

Spec == Init /\ [][Next]_vars

\* ============================================================= validators
\* The validators are pure functions of a string.  A string is the sequence
\* of its characters; an absent value (undefined) is told apart from "".
MaxAffix == 2

Str(chars) == [given |-> TRUE, chars |-> chars]
Undefined == [given |-> FALSE, chars |-> <<>>]

LowerCase == {"a", "b", "c", "d", "e", "f", "g", "h", "i", "j", "k", "l", "m",
              "n", "o", "p", "q", "r", "s", "t", "u", "v", "w", "x", "y", "z"}
Digits == {"0", "1", "2", "3", "4", "5", "6", "7", "8", "9"}

\* `!value`: undefined and the empty string are falsy
Falsy_OnlyUndefined(v) == ~v.given

Falsy(v) == ~v.given \/ v.chars = <<>>

\* s.startsWith(c), s.endsWith(c), s.includes(cd) for single characters c, d
StartsWith(s, c) == Len(s) > 0 /\ s[1] = c
EndsWith(s, c) == Len(s) > 0 /\ s[Len(s)] = c
IncludesPair(s, c, d) == \E i \in 1..(Len(s) - 1) : s[i] = c /\ s[i + 1] = d

\* /^[a-z0-9.-]+$/.test(s)
BucketNamePattern(s) ==
    Len(s) > 0 /\ \A i \in 1..Len(s) : s[i] \in LowerCase \cup Digits \cup {".", "-"}

FileKeyPattern_StarAllowed(s) ==
    Len(s) > 0 /\ \A i \in 1..Len(s) : s[i] \notin {"<", ">", ":", "\"", "|", "?"}

\* /^[^<>:"|?*]+$/ of fileKeySchema
FileKeyPattern(s) ==
    Len(s) > 0 /\ \A i \in 1..Len(s) : s[i] \notin {"<", ">", ":", "\"", "|", "?", "*"}

DotsAdjacentToHyphens_OneSided(s) == IncludesPair(s, ".", "-")

\* bucketName.includes('.-') || bucketName.includes('-.')
DotsAdjacentToHyphens(s) == IncludesPair(s, ".", "-") \/ IncludesPair(s, "-", ".")

\* validateBucketName: returns nothing when the name passes (NoError) and
\* throws the Error of the first rule the name breaks.
validateBucketName(name) ==
    LET s == name.chars IN
    IF Falsy(name)
    THEN NewError(<<Lit("Bucket name is required")>>)
    ELSE IF Len(s) < 3 \/ Len(s) > 63
    THEN NewError(<<Lit("Bucket name must be between 3 and 63 characters")>>)
    ELSE IF ~BucketNamePattern(s)
    THEN NewError(<<Lit("Bucket name can only contain lowercase letters, numbers, dots, and hyphens")>>)
    ELSE IF StartsWith(s, ".") \/ EndsWith(s, ".")
    THEN NewError(<<Lit("Bucket name cannot start or end with a dot")>>)
    ELSE IF IncludesPair(s, ".", ".")
    THEN NewError(<<Lit("Bucket name cannot contain consecutive dots")>>)
    ELSE IF DotsAdjacentToHyphens(s)
    THEN NewError(<<Lit("Bucket name cannot contain dots adjacent to hyphens")>>)
    ELSE NoError

\* Joi.string().min(lo).max(hi): an absent value passes a schema that is not
\* required; the empty string never passes Joi.string().
JoiString(v, lo, hi) ==
    ~v.given \/ (v.chars # <<>> /\ Len(v.chars) >= lo /\ Len(v.chars) <= hi)

\* The schemas, as "the value passes" (validate() returns no error).
bucketNameSchema(v) == JoiString(v, 3, 63) /\ (v.given => BucketNamePattern(v.chars))

fileKeySchema(v) == JoiString(v, 1, 1024) /\ (v.given => FileKeyPattern(v.chars))

\* createBucketSchema, its `name` key: bucketNameSchema.required()
createBucketSchema(v) == v.given /\ bucketNameSchema(v)

\* ------------------------------------------ the routes and the bucket name
Routes == {"createBucket", "deleteBucket", "forceDelete", "bucketDetails",
           "listFiles", "uploadFile", "downloadFile", "deleteFile",
           "fileMetadata", "downloadUrl"}

\* The check each route runs on the bucket name before it calls the service:
\* the bucket routes use the `name` key of createBucketSchema, the file
\* routes use fileKeySchema.
RouteAccepts(route, v) ==
    IF route \in {"createBucket", "deleteBucket", "forceDelete", "bucketDetails"}
    THEN createBucketSchema(v)
    ELSE fileKeySchema(v)

\* The check the service method runs before its first command: createBucket
\* alone calls validateBucketName.
ServiceAccepts(route, v) ==
    route = "createBucket" => ~validateBucketName(v).thrown

\* The first command the service method of the route issues with the name.
FirstCommand(route) ==
    CASE route = "createBucket" -> "CreateBucket"
      [] route = "forceDelete" -> "ListAccessPoints"
      [] route = "uploadFile" -> "PutObject"
      [] route = "downloadFile" -> "GetObject"
      [] route = "deleteFile" -> "DeleteObject"
      [] route = "fileMetadata" -> "HeadObject"
      [] route = "downloadUrl" -> "getSignedUrl"
      [] OTHER -> "ListObjectsV2"

\* A request, well-formed but for its bucket name, up to its first command.
RouteOutcome(route, v) ==
    IF ~RouteAccepts(route, v) THEN [status |-> 400, issued |-> <<>>]
    ELSE IF ~ServiceAccepts(route, v) THEN [status |-> 500, issued |-> <<>>]
    ELSE [status |-> 0, issued |-> <<[cmd |-> FirstCommand(route), bucket |-> v]>>]

\* ----------------------------------------------------------- candidates
\* Strings are drawn as two short affixes around a run of "a": the affixes
\* place every character at the edges and next to every other, the run
\* brings the length to either side of the upper limit.
Pad(n) == [i \in 1..n |-> "a"]

Affixes(alphabet) == UNION {[1..n -> alphabet] : n \in 0..MaxAffix}

Framed(alphabet, pad) ==
    {l \o Pad(pad) \o r : l \in Affixes(alphabet), r \in Affixes(alphabet)}

NameAlphabet == {"a", "1", ".", "-", "A"}
KeyAlphabet == {"a", "/", "|", "*"}

ScenarioNames ==
    {<<"a", "b">>,
     <<"m", "y", ".", ".", "b", "u", "c", "k", "e", "t">>,
     <<"v", "a", "l", "i", "d", "-", "b", "u", "c", "k", "e", "t", ".", "n", "a", "m", "e">>}

ScenarioKeys ==
    {<<"a", "/", "b", "/", "c", ".", "t", "x", "t">>,
     <<"b", "a", "d", "|", "k", "e", "y">>}

\* The candidate is one of the strings, or is absent.
Candidate(kind, route, strings) ==
    \/ \E s \in strings : candidate = [kind |-> kind, route |-> route, value |-> Str(s)]
    \/ candidate = [kind |-> kind, route |-> route, value |-> Undefined]

\* No deletion request is under way.
RequestsIdle ==
    /\ accountId = "123456789012"
    /\ op = [k \in Requests |-> "none"]
    /\ pc = [k \in Requests |-> "idle"]
    /\ bucketName = [k \in Requests |-> "demo"]
    /\ apList = [k \in Requests |-> <<>>]
    /\ apIdx = [k \in Requests |-> 0]
    /\ calls = [k \in Requests |-> <<>>]
    /\ caught = [k \in Requests |-> NoError]
    /\ error = [k \in Requests |-> NoError]
    /\ reply = [k \in Requests |-> NoReply]
    /\ removed = [k \in Requests |-> {}]
    /\ atReturn = [k \in Requests |-> NoAtReturn]
    /\ lastDestroy = NoDestroy

DeletionIdle ==
    /\ buckets = Buckets
    /\ objects = [b \in Buckets |-> {}]
    /\ accessPoints = [b \in Buckets |-> <<>>]
    /\ RequestsIdle

\* A route parameter is always a string; the body of POST /buckets may lack
\* its name.
NamingInit ==
    /\ DeletionIdle
    /\ \/ Candidate("bucketName", "none", Framed(NameAlphabet, 0))
       \/ Candidate("bucketName", "none", Framed(NameAlphabet, 64 - 2 * MaxAffix))
       \/ Candidate("bucketName", "none", ScenarioNames)
       \/ Candidate("fileKey", "none", Framed(KeyAlphabet, 0))
       \/ Candidate("fileKey", "none", Framed(KeyAlphabet, 1025 - 2 * MaxAffix))
       \/ Candidate("fileKey", "none", ScenarioKeys)
       \/ \E r \in Routes :
             /\ \/ Candidate("route", r, Framed(NameAlphabet, 0))
                \/ Candidate("route", r, ScenarioNames)
             /\ candidate.value.given \/ r = "createBucket"
    /\ verdict = <<>>
    /\ contents = {} /\ uploads = <<>> /\ sizing = <<>> /\ download = <<>> /\ listing = <<>> /\ creation = <<>>

\* this.validateBucketName(candidate)
ValidateBucketName ==
    /\ candidate.kind = "bucketName" /\ verdict = <<>>
    /\ verdict' = [error |-> validateBucketName(candidate.value)]
    /\ UNCHANGED <<deletion, sizing, download, candidate, contents, uploads, listing, creation>>

\* fileKeySchema.validate(candidate)
ValidateFileKey ==
    /\ candidate.kind = "fileKey" /\ verdict = <<>>
    /\ verdict' = [valid |-> fileKeySchema(candidate.value)]
    /\ UNCHANGED <<deletion, sizing, download, candidate, contents, uploads, listing, creation>>

\* A route receives the candidate as its bucket name.
HandleRoute ==
    /\ candidate.kind = "route" /\ verdict = <<>>
    /\ verdict' = RouteOutcome(candidate.route, candidate.value)
    /\ UNCHANGED <<deletion, sizing, download, candidate, contents, uploads, listing, creation>>

NamingNext ==
    \/ ValidateBucketName
    \/ ValidateFileKey
    \/ HandleRoute

NamingSpec == NamingInit /\ [][NamingNext]_vars

\* ================================================================ uploads
\* One bucket and its objects, each a key with a body.  The provider keeps
\* at most one object per key: PutObject replaces the object at its Key.
MaxBodies == 2

Bodies == 1..MaxBodies

PutObject(store, command) ==
    {o \in store : o.key # command.Key}
    \cup {[key |-> command.Key, body |-> command.Body]}

DeleteObject(store, key) == {o \in store : o.key # key}

PutObjectCommand_KeyedByFilename(key, fileBuffer, metadata) ==
    [Key |-> metadata.originalName, Body |-> fileBuffer, Metadata |-> metadata]

\* uploadFile: new PutObjectCommand({Key: key, Body: fileBuffer, Metadata})
PutObjectCommand(key, fileBuffer, metadata) ==
    [Key |-> key, Body |-> fileBuffer, Metadata |-> metadata]

\* The two most recent uploadFile calls are remembered.
Remember(call) ==
    IF Len(uploads) < 2 THEN Append(uploads, call) ELSE <<uploads[2], call>>

UploadInit ==
    /\ DeletionIdle
    /\ candidate = <<>> /\ verdict = <<>> /\ listing = <<>> /\ creation = <<>>
    /\ contents \in SUBSET [key : Keys, body : Bodies]
    /\ \A o, p \in contents : o.key = p.key => o = p
    /\ uploads = <<>> /\ sizing = <<>> /\ download = <<>>

\* uploadFile(bucket, key, fileBuffer, type, {originalName}) returns
UploadReturns(key, filename, fileBuffer) ==
    LET command == PutObjectCommand(key, fileBuffer, [originalName |-> filename])
    IN /\ contents' = PutObject(contents, command)
       /\ uploads' = Remember([key |-> key, body |-> fileBuffer, ok |-> TRUE,
                               before |-> contents])
       /\ UNCHANGED <<deletion, sizing, download, candidate, verdict, listing, creation>>

\* uploadFile throws 'Failed to upload file: ...': PutObject failed
UploadThrows(key, fileBuffer) ==
    /\ uploads' = Remember([key |-> key, body |-> fileBuffer, ok |-> FALSE,
                            before |-> contents])
    /\ UNCHANGED <<deletion, sizing, download, candidate, verdict, listing, creation, contents>>

\* deleteFile(bucket, key) returns; the uploads before it are no longer the
\* most recent operations on the bucket
DeleteReturns(key) ==
    /\ \E o \in contents : o.key = key
    /\ contents' = DeleteObject(contents, key)
    /\ uploads' = <<>>
    /\ UNCHANGED <<deletion, sizing, download, candidate, verdict, listing, creation>>

UploadNext ==
    \/ \E key \in Keys, filename \in Keys, b \in Bodies : UploadReturns(key, filename, b)
    \/ \E key \in Keys, b \in Bodies : UploadThrows(key, b)
    \/ \E key \in Keys : DeleteReturns(key)

UploadSpec == UploadInit /\ [][UploadNext]_vars

\* ============================================================ listBuckets
\* The buckets of the account are numbered; ListBuckets answers them in
\* order.  The lookups of the buckets run concurrently (Promise.all over
\* async callbacks), so they complete in any order, and a bucket may be gone
\* by the time it is looked up.
MaxBuckets == 2

BucketNames == 1..MaxBuckets

RECURSIVE InOrder(_)
InOrder(names) ==
    IF names = {} THEN <<>>
    ELSE LET first == CHOOSE n \in names : \A m \in names : n <= m
         IN <<first>> \o InOrder(names \ {first})

\* GetBucketLocation, then ListObjectsV2, of one bucket: the pair succeeds or
\* one of the two fails.
LookupOutcomes(b) ==
    IF b \in buckets THEN {"ok", "ServiceUnavailable"} ELSE {"NoSuchBucket"}

Pending == [name |-> 0, region |-> "pending", objectCount |-> 0, hasObjects |-> FALSE]

NotListing == [pc |-> "idle", response |-> <<>>, result |-> <<>>, observed |-> <<>>]

ListInit ==
    /\ buckets \in SUBSET BucketNames
    /\ objects \in [BucketNames -> {{}, {1}}]
    /\ accessPoints = [b \in BucketNames |-> <<>>]
    /\ RequestsIdle
    /\ candidate = <<>> /\ verdict = <<>> /\ contents = {} /\ uploads = <<>> /\ sizing = <<>> /\ download = <<>>
    /\ creation = <<>>
    /\ listing = NotListing

listFrame == <<accessPoints, accountId, op, pc, bucketName, apList, apIdx, calls,
               caught, error, reply, removed, atReturn, lastDestroy, sizing, download, candidate,
               verdict, contents, uploads, creation>>

\* listBuckets up to Promise.all: the ListBuckets call
ListBucketsCall ==
    /\ listing.pc = "idle"
    /\ \E o \in {"ok", "ServiceUnavailable"} :
          listing' =
             IF o # "ok"
             THEN [listing EXCEPT !.pc = "thrown"]
             ELSE LET response == InOrder(buckets) IN
                  [pc |-> IF response = <<>> THEN "returned" ELSE "enriching",
                   response |-> response,
                   result |-> [i \in 1..Len(response) |-> Pending],
                   observed |-> [i \in 1..Len(response) |-> "pending"]]
    /\ UNCHANGED <<buckets, objects, listFrame>>

\* The callback of one bucket completes, through its try or its catch;
\* Promise.all resolves with the last of them.
LookupBucket(i) ==
    LET b == listing.response[i] IN
    /\ listing.pc = "enriching"
    /\ i \in 1..Len(listing.response)
    /\ listing.observed[i] = "pending"
    /\ \E o \in LookupOutcomes(b) :
          LET result == [listing.result EXCEPT ![i] = BucketDetails(b, o # "ok")]
              observed == [listing.observed EXCEPT ![i] = o]
          IN listing' = [listing EXCEPT
                            !.result = result,
                            !.observed = observed,
                            !.pc = IF \A j \in 1..Len(observed) : observed[j] # "pending"
                                   THEN "returned" ELSE "enriching"]
    /\ UNCHANGED <<buckets, objects, listFrame>>

\* Another client deletes a bucket while the listing is under way.
BucketGoes(b) ==
    /\ listing.pc = "enriching"
    /\ b \in buckets
    /\ buckets' = buckets \ {b}
    /\ UNCHANGED <<objects, listing, listFrame>>

ListNext ==
    \/ ListBucketsCall
    \/ \E i \in BucketNames : LookupBucket(i)
    \/ \E b \in BucketNames : BucketGoes(b)

ListSpec == ListInit /\ [][ListNext]_vars

\* =========================================================== POST /buckets
\* One request with its body {name, region}.  The caller may own the bucket
\* already; whether another account owns the name is the provider's answer.
CreateBucketOutcomes(name) ==
    (IF name \in buckets
     THEN {"BucketAlreadyOwnedByYou"}
     ELSE {"ok", "BucketAlreadyExists"})
    \cup {"ServiceUnavailable", "AccessDenied"}

CreateBucketCatch_OwnedUnmapped(errorName, e) ==
    IF errorName = "BucketAlreadyExists"
    THEN NewError(<<Lit("Bucket name already exists")>>)
    ELSE Wrap("Failed to create bucket: ", e)

\* catch of createBucket: error.name tells the two conflicts apart
CreateBucketCatch(errorName, e) ==
    IF errorName = "BucketAlreadyExists"
    THEN NewError(<<Lit("Bucket name already exists")>>)
    ELSE IF errorName = "BucketAlreadyOwnedByYou"
    THEN NewError(<<Lit("Bucket already owned by you")>>)
    ELSE Wrap("Failed to create bucket: ", e)

\* catch of POST /buckets
CreateReply(e) ==
    IF Includes(e.message, "already exists") \/ Includes(e.message, "already owned")
    THEN Failure(409, e.message)
    ELSE Failure(500, e.message)

Created ==
    [status |-> 201, success |-> TRUE, message |-> <<Lit("Bucket created successfully")>>,
     code |-> NoCode, accessPoints |-> <<>>]

\* validateRequest(createBucketSchema): the reply to a body that fails
ValidationErrorReply == Failure(400, <<Lit("Validation error")>>)

CreateInit ==
    /\ \E region \in {"us-east-1", "eu-west-1"} :
        /\ \/ \E s \in Framed(NameAlphabet, 0) \cup ScenarioNames :
                 creation = [pc |-> "received", name |-> Str(s), region |-> region,
                             calls |-> <<>>, error |-> NoError, reply |-> NoReply]
           \/ creation = [pc |-> "received", name |-> Undefined, region |-> region,
                          calls |-> <<>>, error |-> NoError, reply |-> NoReply]
    /\ buckets \in {{}, {creation.name.chars}}
    /\ objects = [b \in Buckets |-> {}]
    /\ accessPoints = [b \in Buckets |-> <<>>]
    /\ RequestsIdle
    /\ candidate = <<>> /\ verdict = <<>> /\ contents = {} /\ uploads = <<>> /\ sizing = <<>> /\ download = <<>>
    /\ listing = <<>>

createFrame == <<objects, accessPoints, accountId, op, pc, bucketName, apList,
                 apIdx, calls, caught, error, reply, removed, atReturn,
                 lastDestroy, sizing, download, candidate, verdict, contents, uploads, listing>>

\* The preHandler, the handler and createBucket up to its await.
CreateStart ==
    /\ creation.pc = "received"
    /\ creation' =
          IF ~createBucketSchema(creation.name)
          THEN [creation EXCEPT !.pc = "done", !.reply = ValidationErrorReply]
          ELSE LET v == validateBucketName(creation.name) IN
               IF v.thrown
               THEN LET e == CreateBucketCatch("Error", v)
                    IN [creation EXCEPT !.pc = "done", !.error = e, !.reply = CreateReply(e)]
               ELSE [creation EXCEPT !.pc = "CreateBucket"]
    /\ UNCHANGED <<buckets, createFrame>>

\* createBucket from the response of CreateBucket to the reply of the route
CreateBucketCall ==
    LET name == creation.name.chars IN
    /\ creation.pc = "CreateBucket"
    /\ \E o \in CreateBucketOutcomes(name) :
          LET call == [cmd |-> "CreateBucket", bucket |-> name,
                       location |-> IF creation.region # "us-east-1"
                                    THEN creation.region ELSE "",
                       outcome |-> o]
              e == IF o = "ok" THEN NoError ELSE CreateBucketCatch(o, ProviderError(o))
          IN /\ creation' = [creation EXCEPT
                                !.pc = "done",
                                !.calls = Append(@, call),
                                !.error = e,
                                !.reply = IF o = "ok" THEN Created ELSE CreateReply(e)]
             /\ buckets' = IF o = "ok" THEN buckets \cup {name} ELSE buckets
    /\ UNCHANGED createFrame

CreateNext ==
    \/ CreateStart
    \/ CreateBucketCall

CreateSpec == CreateInit /\ [][CreateNext]_vars

\* ====================================== the access-point loop, call by call
\* deleteBucketWithAccessPoints with the sending of a DeleteAccessPoint
\* command and the settling of its promise as two steps.  A command that was
\* sent and has not settled is in the log with the outcome "pending".
InFlight(k) ==
    {p \in 1..Len(calls[k]) : calls[k][p].outcome = "pending"}

MaySend_NotAwaited(pending) == TRUE

\* `await this.deleteAccessPoint(...)` in the body of the for-of loop: the
\* next iteration starts when the promise of this one has been fulfilled
MaySend(pending) == pending = {}

\* the for-of loop sends the command of the next listed access point
SendDeleteAccessPoint(k) ==
    LET sent == Len(calls[k]) - 1 IN
    /\ Running
    /\ UNCHANGED aside
    /\ op[k] = "forceDelete" /\ pc[k] = "DeleteAccessPoint"
    /\ sent < Len(apList[k])
    /\ MaySend(InFlight(k))
    /\ Issue(k, Call("DeleteAccessPoint", apList[k][sent + 1], "pending", 0))
    /\ UNCHANGED <<provider, lastDestroy, accountId, op, pc, bucketName, apList,
                   apIdx, caught, error, reply, removed, atReturn>>

\* the provider answers a command in flight: deleteAccessPoint returns, or
\* throws into the catch of deleteBucketWithAccessPoints
SettleDeleteAccessPoint(k) ==
    LET b == bucketName[k] IN
    /\ Running
    /\ UNCHANGED aside
    /\ op[k] = "forceDelete" /\ pc[k] = "DeleteAccessPoint"
    /\ \E p \in InFlight(k) :
        LET a == calls[k][p].arg IN
        \E o \in DeleteAccessPointOutcomes(a) :
            /\ calls' = [calls EXCEPT ![k][p] = Call("DeleteAccessPoint", a, o, 0)]
            /\ UNCHANGED <<buckets, objects, lastDestroy>>
            /\ accessPoints' = IF o = "ok"
                               THEN [x \in Buckets |-> Without(accessPoints[x], a)]
                               ELSE accessPoints
            /\ removed' = [removed EXCEPT ![k] = IF o = "ok" THEN @ \cup {a} ELSE @]
            /\ IF DeleteAccessPointThrows(o)
               THEN LET e == DeleteBucketWithAccessPointsCatch(
                                 DeleteAccessPointCatch(a, ProviderError(o)))
                    IN /\ UNCHANGED apIdx
                       /\ Done(k, b, e, ForceDeleteReply(e))
               ELSE /\ apIdx' = [apIdx EXCEPT ![k] = @ + 1]
                    /\ Await(k, IF apIdx[k] + 1 < Len(apList[k])
                                THEN "DeleteAccessPoint" ELSE "DeleteBucket")
    /\ UNCHANGED <<accountId, op, bucketName, apList, caught>>

LoopNext ==
    \/ \E k \in Requests, b \in Buckets : ForceDeleteStart(k, b)
    \/ \E k \in Requests : ForceListAccessPoints(k)
    \/ \E k \in Requests : SendDeleteAccessPoint(k)
    \/ \E k \in Requests : SettleDeleteAccessPoint(k)
    \/ \E k \in Requests : ForceDeleteBucket(k)
    \/ \E k \in Requests : Return(k)

LoopSpec == Init /\ [][LoopNext]_vars

\* ===================================================== the size of a bucket
\* calculateBucketSize over a bucket whose objects, in key order, have the
\* sizes sizing.objects.  The page limit of the listing (1000 in the code) is
\* scaled down to MaxKeys so that a truncated listing fits the model.
MaxSized == 3
MaxKeys == 2
MaxListings == 3

NoToken == 0

RECURSIVE Sum(_)
\* files.reduce((sum, file) => sum + file.size, 0)
Sum(sizes) == IF sizes = <<>> THEN 0 ELSE Head(sizes) + Sum(Tail(sizes))

\* The provider's ListObjectsV2: at most maxKeys objects in key order, from
\* the start of the bucket or from the object a continuation token names;
\* when objects are left over, the listing is truncated and carries the token
\* of the first object left over.
ListObjectsV2(objs, token, maxKeys) ==
    LET first == IF token = NoToken THEN 1 ELSE token
        last == IF first + maxKeys - 1 < Len(objs) THEN first + maxKeys - 1 ELSE Len(objs)
    IN [Contents |-> SubSeq(objs, first, last),
        IsTruncated |-> last < Len(objs),
        NextContinuationToken |-> IF last < Len(objs) THEN last + 1 ELSE NoToken]

\* listFiles(bucketName, prefix, maxKeys) builds its command from Bucket,
\* Prefix and MaxKeys: whatever token its caller holds, none is sent
ListFilesToken(continuationToken) == NoToken

\* listFiles: the result it builds from the response
ListFiles(objs, continuationToken, maxKeys) ==
    LET response == ListObjectsV2(objs, ListFilesToken(continuationToken), maxKeys)
    IN [files |-> response.Contents,
        isTruncated |-> response.IsTruncated,
        nextContinuationToken |-> response.NextContinuationToken]

\* `catch (error) { return 0; }` of calculateBucketSize
SizeFailed(totalSize) == 0

SizeInit ==
    /\ DeletionIdle
    /\ candidate = <<>> /\ verdict = <<>> /\ contents = {} /\ uploads = <<>>
    /\ listing = <<>> /\ creation = <<>> /\ download = <<>>
    /\ \E n \in 0..MaxSized : \E objs \in [1..n -> {0, 1, 2}] :
           sizing = [objects |-> objs, pc |-> "listFiles", totalSize |-> 0,
                     continuationToken |-> NoToken, calls |-> <<>>, result |-> 0]

\* calculateBucketSize: one iteration of the do-while loop, from the await of
\* listFiles to the test of the token, or to the catch
SizePage ==
    /\ sizing.pc = "listFiles"
    /\ Len(sizing.calls) < MaxListings
    /\ \E o \in {"ok", "ServiceUnavailable"} :
        LET sent == ListFilesToken(sizing.continuationToken)
            result == ListFiles(sizing.objects, sizing.continuationToken, MaxKeys)
        IN IF o # "ok"
           THEN sizing' = [sizing EXCEPT
                              !.calls = Append(@, [token |-> sent, outcome |-> o,
                                                   files |-> <<>>, next |-> NoToken]),
                              !.pc = "done",
                              !.result = SizeFailed(sizing.totalSize)]
           ELSE LET total == sizing.totalSize + Sum(result.files)
                IN sizing' = [sizing EXCEPT
                                 !.calls = Append(@, [token |-> sent, outcome |-> o,
                                                      files |-> result.files,
                                                      next |-> result.nextContinuationToken]),
                                 !.totalSize = total,
                                 !.continuationToken = result.nextContinuationToken,
                                 !.pc = IF result.nextContinuationToken # NoToken
                                        THEN "listFiles" ELSE "done",
                                 !.result = IF result.nextContinuationToken # NoToken
                                            THEN 0 ELSE total]
    /\ UNCHANGED <<deletion, candidate, verdict, contents, uploads, listing,
                   creation, download>>

SizeSpec == SizeInit /\ [][SizePage]_vars

\* ============================================================== downloads
\* GET /buckets/:bucket/files/:key over one bucket.  A stored object has a
\* key, a body (body n is n bytes long), a content type and user metadata;
\* the provider derives its ETag from the body.
ETagOf(body) == "etag-" \o ToString(body)

\* The value of a property of an object; `undefined` when it has none.
Get(object, property) ==
    IF property \in DOMAIN object THEN object[property] ELSE "undefined"

\* The provider's response to GetObject for a key the bucket holds.
GetObject(store, key) ==
    LET o == CHOOSE x \in store : x.key = key
    IN [Body |-> o.body, ContentType |-> o.contentType, ContentLength |-> o.body,
        ETag |-> ETagOf(o.body), Metadata |-> o.metadata]

\* downloadFile: the object it returns
DownloadFile(response) ==
    [body |-> response.Body, contentType |-> response.ContentType,
     contentLength |-> response.ContentLength, metadata |-> response.Metadata]

\* The headers and the body the route sends for what downloadFile returned.
DownloadReply(fileData) ==
    [status |-> 200, success |-> TRUE,
     contentType |-> IF Get(fileData, "contentType") \in {"undefined", ""}
                     THEN "application/octet-stream"
                     ELSE Get(fileData, "contentType"),
     contentLength |-> Get(fileData, "contentLength"),
     etag |-> Get(fileData, "etag"),
     body |-> Get(fileData, "body")]

\* catch of GET /buckets/:bucket/files/:key
DownloadFailedReply(e) ==
    IF Includes(e.message, "not found") \/ Includes(e.message, "does not exist")
    THEN [status |-> 404, success |-> FALSE, contentType |-> "application/json",
          contentLength |-> 0, etag |-> "undefined", body |-> <<Lit("File not found")>>]
    ELSE [status |-> 500, success |-> FALSE, contentType |-> "application/json",
          contentLength |-> 0, etag |-> "undefined", body |-> e.message]

DownloadInit ==
    /\ DeletionIdle
    /\ candidate = <<>> /\ verdict = <<>> /\ uploads = <<>>
    /\ listing = <<>> /\ creation = <<>> /\ sizing = <<>>
    /\ contents \in SUBSET [key : Keys, body : Bodies,
                             contentType : {"text/plain", "image/png"},
                             metadata : {<<>>, <<"originalName">>}]
    /\ \A o, p \in contents : o.key = p.key => o = p
    /\ \E key \in Keys :
           download = [pc |-> "received", key |-> key, calls |-> <<>>,
                       fileData |-> <<>>, error |-> NoError, reply |-> NoReply]

\* The handler up to its reply: downloadFile(bucket, key), then the headers
\* and the stream, or the catch.  The keys of the model pass the validation
\* of the route.
Download ==
    /\ download.pc = "received"
    /\ \E o \in (IF \E x \in contents : x.key = download.key
                 THEN {"ok"} ELSE {"NoSuchKey"}) \cup {"ServiceUnavailable"} :
        LET call == [cmd |-> "GetObject", key |-> download.key, outcome |-> o] IN
        IF o = "ok"
        THEN LET fileData == DownloadFile(GetObject(contents, download.key))
             IN download' = [download EXCEPT !.pc = "done", !.calls = <<call>>,
                                             !.fileData = fileData,
                                             !.reply = DownloadReply(fileData)]
        ELSE LET e == Wrap("Failed to download file: ", ProviderError(o))
             IN download' = [download EXCEPT !.pc = "done", !.calls = <<call>>,
                                             !.error = e,
                                             !.reply = DownloadFailedReply(e)]
    /\ UNCHANGED <<deletion, candidate, verdict, contents, uploads, listing,
                   creation, sizing>>

DownloadSpec == DownloadInit /\ [][Download]_vars

\* ================================================ keys across the HTTP boundary
\* The client puts the key of an object in the path of its request with
\* encodeFileKey; the router hands the route the decoded path parameter; the
\* route validates, and addresses an object of the bucket.  Keys are strings
\* of at most MaxKeyLen characters out of k, %, 3, C, / and the space.
MaxKeyLen == 3

RoundTripKeys ==
    UNION {[1..n -> {"k", "%", "3", "C", "/", " "}] : n \in 1..MaxKeyLen}

\* The characters encodeURIComponent leaves as they are.
Unreserved(c) ==
    c \in LowerCase \cup Digits
          \cup {"A", "B", "C", "D", "E", "F", "G", "H", "I", "J", "K", "L", "M",
                "N", "O", "P", "Q", "R", "S", "T", "U", "V", "W", "X", "Y", "Z"}
          \cup {"-", "_", ".", "!", "~", "*", "'", "(", ")"}

\* The two hexadecimal digits of the code of an ASCII character.
HexOf(c) ==
    CASE c = " " -> <<"2", "0">>
      [] c = "%" -> <<"2", "5">>
      [] c = "/" -> <<"2", "F">>
      [] c = "<" -> <<"3", "C">>

\* The ASCII character of a code given by its two hexadecimal digits.
CharOf(h, l) ==
    CASE h = "2" /\ l = "0" -> " "
      [] h = "2" /\ l = "5" -> "%"
      [] h = "2" /\ l = "F" -> "/"
      [] h = "3" /\ l = "3" -> "3"
      [] h = "3" /\ l = "C" -> "<"

RECURSIVE encodeFileKey(_)
\* const encodeFileKey = (key) => encodeURIComponent(key)
encodeFileKey(key) ==
    IF key = <<>> THEN <<>>
    ELSE (IF Unreserved(Head(key)) THEN <<Head(key)>>
          ELSE <<"%">> \o HexOf(Head(key)))
         \o encodeFileKey(Tail(key))

\* decodeURIComponent: the decoded string, or URIError (ok = FALSE) for a
\* "%" that two hexadecimal digits do not follow, and for a byte of 80 and
\* above outside a UTF-8 sequence (no string of the model continues one:
\* that takes a second escape starting with 8, 9, A or B).
RECURSIVE decodeURIComponent(_)
decodeURIComponent(chars) ==
    LET HexDigits ==
            Digits \cup {"A", "B", "C", "D", "E", "F", "a", "b", "c", "d", "e", "f"}
    IN
    IF chars = <<>> THEN [ok |-> TRUE, chars |-> <<>>]
    ELSE IF Head(chars) # "%"
    THEN LET rest == decodeURIComponent(Tail(chars))
         IN [ok |-> rest.ok, chars |-> <<Head(chars)>> \o rest.chars]
    ELSE IF Len(chars) < 3 \/ chars[2] \notin HexDigits \/ chars[3] \notin HexDigits
    THEN [ok |-> FALSE, chars |-> <<>>]
    ELSE IF chars[2] \notin {"0", "1", "2", "3", "4", "5", "6", "7"}
    THEN [ok |-> FALSE, chars |-> <<>>]
    ELSE LET rest == decodeURIComponent(SubSeq(chars, 4, Len(chars)))
         IN [ok |-> rest.ok, chars |-> <<CharOf(chars[2], chars[3])>> \o rest.chars]

\* request.params.key: the router decodes the segment of the path
RequestParam(segment) == decodeURIComponent(segment).chars

\* GET /buckets/:bucket/files/:key up to its provider call: the status of
\* the reply and the command issued with the key, if any
DownloadRoute(key) ==
    IF ~fileKeySchema(Str(key))
    THEN [status |-> 400, cmd |-> "none", key |-> Undefined]
    ELSE [status |-> 200, cmd |-> "GetObject", key |-> Str(key)]

\* DELETE /buckets/:bucket/files/:key and GET .../:key/metadata up to their
\* provider call: decodeURIComponent(key) (it may throw into the catch), the
\* validation of key, then the service call with the decoded key
DecodingRoute(cmd, key) ==
    LET decodedKey == decodeURIComponent(key) IN
    IF ~decodedKey.ok
    THEN [status |-> 500, cmd |-> "none", key |-> Undefined]
    ELSE IF ~fileKeySchema(Str(key))
    THEN [status |-> 400, cmd |-> "none", key |-> Undefined]
    ELSE [status |-> 200, cmd |-> cmd, key |-> Str(decodedKey.chars)]

KeyInit ==
    /\ DeletionIdle
    /\ contents = {} /\ uploads = <<>> /\ sizing = <<>> /\ download = <<>>
    /\ listing = <<>> /\ creation = <<>>
    /\ \E r \in {"downloadFile", "deleteFile", "fileMetadata"} :
       \E k \in RoundTripKeys :
           candidate = [kind |-> "clientKey", route |-> r, value |-> Str(k)]
    /\ verdict = <<>>

\* fileApi.download(bucket, key) and the route that serves it
ClientDownload ==
    /\ candidate.kind = "clientKey" /\ candidate.route = "downloadFile"
    /\ verdict = <<>>
    /\ verdict' = DownloadRoute(RequestParam(encodeFileKey(candidate.value.chars)))
    /\ UNCHANGED <<deletion, sizing, download, candidate, contents, uploads,
                   listing, creation>>

\* fileApi.delete(bucket, key) and the route that serves it
ClientDelete ==
    /\ candidate.kind = "clientKey" /\ candidate.route = "deleteFile"
    /\ verdict = <<>>
    /\ verdict' = DecodingRoute("DeleteObject",
                                RequestParam(encodeFileKey(candidate.value.chars)))
    /\ UNCHANGED <<deletion, sizing, download, candidate, contents, uploads,
                   listing, creation>>

\* fileApi.getMetadata(bucket, key) and the route that serves it
ClientGetMetadata ==
    /\ candidate.kind = "clientKey" /\ candidate.route = "fileMetadata"
    /\ verdict = <<>>
    /\ verdict' = DecodingRoute("HeadObject",
                                RequestParam(encodeFileKey(candidate.value.chars)))
    /\ UNCHANGED <<deletion, sizing, download, candidate, contents, uploads,
                   listing, creation>>

KeyNext ==
    \/ ClientDownload
    \/ ClientDelete
    \/ ClientGetMetadata

KeySpec == KeyInit /\ [][KeyNext]_vars

\* ============================================================== file types
\* validateFileType is a pure function of the content type and of
\* config.allowedFileTypes.  Content types are the strings of at most
\* MaxTypeLen characters out of i, a, p and /, and some of the types in use.
MaxTypeLen == 4

\* Values of config.allowedFileTypes: the default (ALLOWED_FILE_TYPES is
\* not set), and lists over the short type names i and a.
AllowedFileTypes ==
    {{<<"i", "m", "a", "g", "e", "/", "*">>,
      <<"a", "p", "p", "l", "i", "c", "a", "t", "i", "o", "n", "/", "p", "d", "f">>,
      <<"t", "e", "x", "t", "/", "*">>,
      <<"v", "i", "d", "e", "o", "/", "*">>,
      <<"a", "u", "d", "i", "o", "/", "*">>,
      <<"a", "p", "p", "l", "i", "c", "a", "t", "i", "o", "n", "/", "z", "i", "p">>},
     {<<"i", "/", "*">>, <<"a", "/", "p">>},
     {<<"a", "/", "p">>},
     {<<"*", "/", "*">>},
     {}}

ContentTypeStrings ==
    UNION {[1..n -> {"i", "a", "p", "/"}] : n \in 1..MaxTypeLen}
    \cup
    {<<"i", "m", "a", "g", "e", "/", "p", "n", "g">>,
     <<"i", "m", "a", "g", "e", "x", "/", "p", "n", "g">>,
     <<"a", "p", "p", "l", "i", "c", "a", "t", "i", "o", "n", "/", "p", "d", "f">>,
     <<"a", "p", "p", "l", "i", "c", "a", "t", "i", "o", "n", "/", "j", "s", "o", "n">>,
     <<"t", "e", "x", "t", "/", "p", "l", "a", "i", "n", ";", " ", "c", "h", "a", "r", "s", "e", "t", "=", "u", "t", "f", "-", "8">>,
     <<"t", "e", "x", "t", "u", "a", "l", "/", "x">>,
     <<"i", "m", "a", "g", "e">>}

\* s.startsWith(prefix)
StartsWithString(s, prefix) ==
    Len(s) >= Len(prefix) /\ SubSeq(s, 1, Len(prefix)) = prefix

\* allowedType.endsWith('/*')
IsWildcard(allowedType) ==
    Len(allowedType) >= 2
    /\ allowedType[Len(allowedType) - 1] = "/" /\ allowedType[Len(allowedType)] = "*"

\* the callback of allowedFileTypes.some(...): the prefix compared is
\* allowedType.slice(0, -2), the type without its '/*'
IsAllowed(contentType, allowedType) ==
    IF IsWildcard(allowedType)
    THEN StartsWithString(contentType, SubSeq(allowedType, 1, Len(allowedType) - 2))
    ELSE contentType = allowedType

\* validateFileType: returns nothing (NoError) or throws
validateFileType(contentType, allowed) ==
    IF <<"*", "/", "*">> \notin allowed
       /\ ~\E allowedType \in allowed : IsAllowed(contentType, allowedType)
    THEN NewError(<<Lit("File type "), Name(contentType), Lit(" is not allowed")>>)
    ELSE NoError

\* POST /buckets/:bucket/files for a request with a valid bucket, key and
\* size, from validateFileType to the reply: the catch answers 400 to 'not
\* allowed'; otherwise uploadFile issues PutObject.
UploadRouteOutcome(contentType, allowed) ==
    LET e == validateFileType(contentType, allowed) IN
    IF e.thrown
    THEN [status |-> IF Includes(e.message, "not allowed") THEN 400 ELSE 500,
          message |-> e.message, issued |-> <<>>]
    ELSE [status |-> 201, message |-> <<Lit("File uploaded successfully")>>,
          issued |-> <<[cmd |-> "PutObject", contentType |-> contentType]>>]

TypeInit ==
    /\ DeletionIdle
    /\ contents = {} /\ uploads = <<>> /\ sizing = <<>> /\ download = <<>>
    /\ listing = <<>> /\ creation = <<>>
    /\ \E kind \in {"fileType", "upload"}, allowed \in AllowedFileTypes :
           \E s \in ContentTypeStrings :
               candidate = [kind |-> kind, route |-> "uploadFile",
                            value |-> Str(s), allowed |-> allowed]
    /\ verdict = <<>>

\* s3Service.validateFileType(candidate)
ValidateFileType ==
    /\ candidate.kind = "fileType" /\ verdict = <<>>
    /\ verdict' = validateFileType(candidate.value.chars, candidate.allowed)
    /\ UNCHANGED <<deletion, sizing, download, candidate, contents, uploads,
                   listing, creation>>

\* The upload route receives a file of the candidate type.
UploadOfType ==
    /\ candidate.kind = "upload" /\ verdict = <<>>
    /\ verdict' = UploadRouteOutcome(candidate.value.chars, candidate.allowed)
    /\ UNCHANGED <<deletion, sizing, download, candidate, contents, uploads,
                   listing, creation>>

TypeNext ==
    \/ ValidateFileType
    \/ UploadOfType

TypeSpec == TypeInit /\ [][TypeNext]_vars

\* ================================================================ claims
Finished(k, route) == pc[k] = "done" /\ op[k] = route

Issued(k, cmd) == \E p \in 1..Len(calls[k]) : calls[k][p].cmd = cmd

HasNum(message, n) ==
    \E i \in 1..Len(message) : message[i].t = "num" /\ message[i].n = n

HasName(message, a) ==
    \E i \in 1..Len(message) : message[i].t = "name" /\ message[i].n = a

NotEmptyFailure(e) == e.thrown /\ Includes(e.message, "contains objects")

C2_AlwaysNotEmpty ==
    \A k \in Requests :
        Finished(k, "deleteBucket") /\ calls[k][1].held > 0 =>
            NotEmptyFailure(error[k]) /\ ~Issued(k, "DeleteBucket")

\* C2 amended: such a plain delete never issues DeleteBucket and always
\* fails; the failure is NotEmpty when the emptiness listing returned, and
\* the wrapped provider error when the listing call itself failed.
C2_NotEmptyWhenListed ==
    \A k \in Requests :
        Finished(k, "deleteBucket") /\ calls[k][1].held > 0 =>
            /\ ~Issued(k, "DeleteBucket")
            /\ Len(calls[k]) = 1
            /\ error[k].thrown /\ ~reply[k].success
            /\ (calls[k][1].outcome = "ok" <=> NotEmptyFailure(error[k]))
            /\ (calls[k][1].outcome = "ok" => reply[k].status = 409)

C2_Witness ==
    \E k \in Requests :
        /\ Finished(k, "deleteBucket") /\ calls[k][1].held = 2
        /\ calls[k][1].outcome = "ok"
        /\ NotEmptyFailure(error[k])

\* C3 as stated: plain delete that finds the bucket empty, is refused for
\* attached access points and lists at least one of them throws an error
\* that carries the code BUCKET_HAS_ACCESS_POINTS and the listed access
\* points, and leaves the access points and the bucket as they were.
C3_CarriesAccessPoints ==
    \A k \in Requests :
        Finished(k, "deleteBucket") /\ Len(calls[k]) = 3 /\ Len(apList[k]) > 0 =>
            /\ error[k].thrown
            /\ error[k].code = "BUCKET_HAS_ACCESS_POINTS"
            /\ error[k].accessPoints = apList[k]
            /\ removed[k] = {}
            /\ atReturn[k].exists = atReturn[k].before.exists

\* C4: plain delete issues no DeleteAccessPoint call and removes no access
\* point, on every path.
C4_PlainDeleteKeepsAccessPoints ==
    \A k \in Requests :
        op[k] = "deleteBucket" =>
            ~Issued(k, "DeleteAccessPoint") /\ removed[k] = {}

\* A plain delete has reported the blocking access points.
C4_Witness ==
    \E k \in Requests :
        /\ Finished(k, "deleteBucket") /\ Len(calls[k]) = 3
        /\ Len(apList[k]) = 2
        /\ atReturn[k].aps = apList[k]

PlainPre(k) ==
    /\ Finished(k, "deleteBucket")
    /\ calls[k][1].held = 0
    /\ atReturn[k].before.exists
    /\ atReturn[k].before.objs = 0
    /\ atReturn[k].before.aps = 0

AllOk(k) == \A p \in 1..Len(calls[k]) : calls[k][p].outcome = "ok"

\* C5 as stated: plain delete served by an existing bucket with zero objects
\* and zero access points succeeds, and the bucket is then no longer listed
\* by listBuckets.
C5_Succeeds ==
    \A k \in Requests :
        PlainPre(k) => reply[k].success /\ bucketName[k] \notin atReturn[k].listed

\* C5 amended: such a plain delete succeeds exactly when neither of its two
\* provider calls fails; after the success listBuckets no longer lists the
\* bucket, and after a failed call the bucket is still there.
C5_SucceedsUnlessCallFails ==
    \A k \in Requests :
        PlainPre(k) =>
            /\ reply[k].success <=> AllOk(k)
            /\ reply[k].success =>
                   /\ reply[k].status = 200 /\ ~error[k].thrown
                   /\ Len(calls[k]) = 2
                   /\ ~atReturn[k].exists
                   /\ bucketName[k] \notin atReturn[k].listed
            /\ ~reply[k].success => error[k].thrown /\ atReturn[k].exists

C5_Witness ==
    \E k \in Requests :
        PlainPre(k) /\ reply[k].success /\ bucketName[k] \notin atReturn[k].listed

C7_MessageStatesCount ==
    \A k \in Requests :
        Finished(k, "forceDelete") /\ reply[k].success =>
            HasNum(reply[k].message, Cardinality(removed[k]))

\* C7 amended: the success message states N when N >= 1; when the forced
\* delete removed no access point the message is 'Bucket deleted
\* successfully' and states no number.
C7_MessageStatesPositiveCount ==
    \A k \in Requests :
        Finished(k, "forceDelete") /\ reply[k].success =>
            LET n == Cardinality(removed[k]) IN
            /\ n = Len(apList[k])
            /\ n >= 1 =>
                   /\ HasNum(reply[k].message, n)
                   /\ \A m \in 0..MaxAccessPoints :
                          HasNum(reply[k].message, m) => m = n
            /\ n = 0 => reply[k].message = <<Lit("Bucket deleted successfully")>>

C7_Witness ==
    \E k \in Requests :
        /\ Finished(k, "forceDelete") /\ reply[k].success
        /\ Cardinality(removed[k]) = 2
        /\ HasNum(reply[k].message, 2)

FailedAt(k, p) ==
    calls[k][p].cmd = "DeleteAccessPoint" /\ calls[k][p].outcome # "ok"

LastFailed(k) == Len(calls[k]) > 0 /\ FailedAt(k, Len(calls[k]))

\* C8: when the deletion of a listed access point fails, forced delete
\* issues no further DeleteAccessPoint call and no DeleteBucket call, removes
\* none of the later access points, fails, and leaves the bucket in
\* existence.
C8_FailStop ==
    \A k \in Requests :
        op[k] = "forceDelete" =>
            \A p \in 1..Len(calls[k]) :
                FailedAt(k, p) =>
                    /\ p = Len(calls[k])
                    /\ ~Issued(k, "DeleteBucket")
                    /\ \A j \in p..Len(apList[k]) : apList[k][j] \notin removed[k]
                    /\ pc[k] = "done"
                    /\ error[k].thrown /\ ~reply[k].success
                    /\ atReturn[k].before.exists => atReturn[k].exists

\* The first of two access points failed: the second was left alone.
C8_Witness ==
    \E k \in Requests :
        /\ Finished(k, "forceDelete") /\ Len(apList[k]) = 2
        /\ FailedAt(k, 2)
        /\ atReturn[k].exists /\ Len(atReturn[k].aps) = 2

C10_ConfigMissingBeforeAnyCall ==
    \A k \in Requests :
        op[k] = "forceDelete" /\ accountId = "" =>
            /\ pc[k] = "done"
            /\ calls[k] = <<>>
            /\ ~reply[k].success /\ reply[k].status = 400
            /\ Includes(reply[k].message, "AWS_ACCOUNT_ID")
            /\ removed[k] = {}
            /\ atReturn[k].exists = atReturn[k].before.exists

C10_Witness ==
    \E k \in Requests :
        /\ Finished(k, "forceDelete") /\ accountId = ""
        /\ reply[k].status = 400
        /\ accessPoints[bucketName[k]] # <<>>

\* C11: forced delete is fail-stop: no forced delete, on any bucket (empty
\* or not) and for any provider failure, ends with the bucket still existing
\* after the request removed one or more of its access points and its
\* DeleteBucket call then failed.
C11_NoAccessPointLostToFailedDelete ==
    \A k \in Requests :
        Finished(k, "forceDelete") /\ Issued(k, "DeleteBucket") =>
            ~(atReturn[k].exists /\ removed[k] # {})

\* The failure kind of a failed delete request, told from what the provider
\* answered to its calls.
LastCall(k) == calls[k][Len(calls[k])]

FailureKind(k) ==
    IF Len(calls[k]) = 0 THEN "ConfigMissing"
    ELSE LET c == LastCall(k) IN
         IF c.outcome = "NoSuchBucket" THEN "NotFound"
         ELSE IF c.cmd = "ListObjectsV2" /\ c.outcome = "ok" THEN "NotEmpty"
         ELSE IF c.cmd = "DeleteBucket" /\ c.outcome = "BucketNotEmpty" THEN "NotEmpty"
         ELSE IF op[k] = "deleteBucket" /\ c.cmd = "DeleteBucket"
                 /\ c.outcome = "AccessPointsAttached" THEN "ConfigMissing"
         ELSE IF op[k] = "deleteBucket" /\ c.cmd = "ListAccessPoints"
                 /\ c.outcome = "ok" /\ c.held > 0 THEN "HasDependents"
         ELSE "Unavailable"

\* C19: the bucket-delete routes map each failure kind to its status:
\* NotEmpty and HasDependents to 409 (the HasDependents reply carrying the
\* blocking access points), NotFound to 404, ConfigMissing and Unavailable
\* to 500.
C19_StatusByFailureKind ==
    \A k \in Requests :
        (Finished(k, "deleteBucket") \/ Finished(k, "forceDelete"))
        /\ ~reply[k].success =>
            LET kind == FailureKind(k) IN
            /\ kind \in {"NotEmpty", "HasDependents"} => reply[k].status = 409
            /\ kind = "HasDependents" =>
                   reply[k].accessPoints = apList[k] /\ apList[k] # <<>>
            /\ kind = "NotFound" => reply[k].status = 404
            /\ kind \in {"ConfigMissing", "Unavailable"} => reply[k].status = 500

\* C20: a plain delete whose DeleteBucket was refused for the access points
\* attached, with no account id configured, fails ConfigMissing (the message
\* asks for AWS_ACCOUNT_ID) without issuing ListAccessPoints.
C20_ConfigMissingWithoutListing ==
    \A k \in Requests :
        /\ Finished(k, "deleteBucket") /\ Len(calls[k]) >= 2
        /\ calls[k][2].cmd = "DeleteBucket"
        /\ calls[k][2].outcome = "AccessPointsAttached"
        /\ accountId = ""
        => /\ ~Issued(k, "ListAccessPoints")
           /\ Len(calls[k]) = 2
           /\ error[k].thrown /\ Includes(error[k].message, "AWS_ACCOUNT_ID")
           /\ ~reply[k].success
           /\ atReturn[k].exists /\ atReturn[k].aps # <<>>

C20_Witness ==
    \E k \in Requests :
        /\ Finished(k, "deleteBucket") /\ Len(calls[k]) = 2
        /\ calls[k][2].outcome = "AccessPointsAttached"
        /\ accountId = ""
        /\ Includes(error[k].message, "AWS_ACCOUNT_ID")
        /\ Len(atReturn[k].aps) = 2

\* ------------------------------------------------- claims on the validators
Validated(kind) == candidate.kind = kind /\ verdict # <<>>

\* The bucket-name rules, each stated for the whole name.
WellFormedBucketName(v) ==
    LET s == v.chars
        n == Len(v.chars)
    IN /\ v.given
       /\ n >= 3 /\ n <= 63
       /\ \A i \in 1..n : s[i] \in LowerCase \cup Digits \cup {".", "-"}
       /\ s[1] # "." /\ s[n] # "."
       /\ \A i \in 1..(n - 1) :
             /\ <<s[i], s[i + 1]>> # <<".", ".">>
             /\ <<s[i], s[i + 1]>> # <<".", "-">>
             /\ <<s[i], s[i + 1]>> # <<"-", ".">>

WellFormedFileKey(v) ==
    /\ Len(v.chars) >= 1 /\ Len(v.chars) <= 1024
    /\ ~\E i \in 1..Len(v.chars) : v.chars[i] \in {"<", ">", ":", "\"", "|", "?", "*"}

\* C12: validateBucketName accepts a name if and only if its length is in
\* [3,63], it matches ^[a-z0-9.-]+$, it neither starts nor ends with '.',
\* and it contains none of '..', '.-', '-.'; "ab" and "my..bucket" are
\* rejected and "valid-bucket.name" is accepted.
C12_AcceptsIffWellFormed ==
    Validated("bucketName") =>
        /\ ~verdict.error.thrown <=> WellFormedBucketName(candidate.value)
        /\ candidate.value.chars \in ScenarioNames =>
              (~verdict.error.thrown <=> Len(candidate.value.chars) = 17)

\* A name of 63 characters with a dot and a hyphen inside is accepted.
C12_Witness ==
    /\ Validated("bucketName") /\ ~verdict.error.thrown
    /\ Len(candidate.value.chars) = 63
    /\ \E i, j \in 1..63 :
          candidate.value.chars[i] = "." /\ candidate.value.chars[j] = "-"

\* C13: fileKeySchema accepts a key if and only if its length is in [1,1024]
\* and it contains none of < > : " | ? *; "a/b/c.txt" is accepted and
\* "bad|key" is rejected.
C13_AcceptsIffWellFormed ==
    Validated("fileKey") /\ candidate.value.given =>
        /\ verdict.valid <=> WellFormedFileKey(candidate.value)
        /\ candidate.value.chars \in ScenarioKeys =>
              (verdict.valid <=> Len(candidate.value.chars) = 9)

\* A key of 1024 characters with a slash is accepted.
C13_Witness ==
    /\ Validated("fileKey") /\ verdict.valid
    /\ Len(candidate.value.chars) = 1024
    /\ \E i \in 1..1024 : candidate.value.chars[i] = "/"

\* C14 as stated: the validator returns a verdict for every input and never
\* throws.
C14_NeverThrows == Validated("bucketName") => ~verdict.error.thrown

\* C14 amended: validateBucketName handles every input, the empty and the
\* missing name included, but returns no verdict: it returns normally for a
\* name that passes and throws a plain Error, whose message states the
\* first rule broken, for any other; the empty and the missing name throw
\* 'Bucket name is required'.
C14_ThrowsTheBrokenRule ==
    /\ candidate.kind = "bucketName" /\ verdict = <<>> => ENABLED ValidateBucketName
    /\ Validated("bucketName") =>
          LET v == candidate.value
              e == verdict.error
          IN /\ e.thrown <=> ~WellFormedBucketName(v)
             /\ e.thrown => e.code = NoCode /\ Len(e.message) = 1
             /\ ~v.given \/ v.chars = <<>> =>
                   e.thrown /\ e.message = <<Lit("Bucket name is required")>>
             /\ v.given /\ Len(v.chars) \in {1, 2} =>
                   e.thrown /\ e.message =
                       <<Lit("Bucket name must be between 3 and 63 characters")>>

\* The empty name is thrown out as missing.
C14_Witness ==
    /\ Validated("bucketName")
    /\ candidate.value = Str(<<>>)
    /\ verdict.error.thrown
    /\ verdict.error.message = <<Lit("Bucket name is required")>>

ProviderCommands ==
    {"CreateBucket", "ListObjectsV2", "ListAccessPoints", "PutObject",
     "GetObject", "DeleteObject", "HeadObject"}

\* C15: in every exposed operation that takes a bucket name, no provider
\* call is issued with a name the bucket-name rules reject.
C15_OnlyWellFormedNamesReachProvider ==
    Validated("route") =>
        \A i \in 1..Len(verdict.issued) :
            verdict.issued[i].cmd \in ProviderCommands =>
                WellFormedBucketName(verdict.issued[i].bucket)

\* ---------------------------------------------------- claims on the uploads
\* The two most recent calls are uploads of the same key that both returned.
SameKeyTwice ==
    /\ Len(uploads) = 2
    /\ uploads[1].ok /\ uploads[2].ok
    /\ uploads[1].key = uploads[2].key

\* C16: two uploadFile calls in a row with the same key, both returning,
\* leave exactly one object at that key, holding the body of the second
\* call, and leave every other object of the bucket as it was.
C16_SecondUploadOverwrites ==
    SameKeyTwice =>
        LET key == uploads[2].key IN
        /\ {o \in contents : o.key = key} = {[key |-> key, body |-> uploads[2].body]}
        /\ {o \in contents : o.key # key} = {o \in uploads[1].before : o.key # key}

\* The key is uploaded twice with different bodies next to another object.
C16_Witness ==
    /\ SameKeyTwice
    /\ uploads[1].body # uploads[2].body
    /\ \E o \in contents : o.key # uploads[2].key

\* ------------------------------------------------- claims on listBuckets
\* C17: a bucket whose lookup fails is still returned, with region "unknown"
\* and object count 0; every other bucket is returned with the result of
\* its own lookup; the call does not fail because of a lookup; the result
\* has exactly one entry for each bucket the provider listed, in its order.
C17_LookupFailuresIsolated ==
    /\ listing.pc = "thrown" => listing.observed = <<>>
    /\ listing.pc = "returned" =>
          /\ Len(listing.result) = Len(listing.response)
          /\ \A i \in 1..Len(listing.response) :
                LET b == listing.response[i]
                    entry == listing.result[i]
                IN /\ entry.name = b
                   /\ listing.observed[i] # "ok" =>
                         entry.region = "unknown" /\ entry.objectCount = 0
                   /\ listing.observed[i] = "ok" =>
                         /\ entry.region = "us-east-1"
                         /\ entry.objectCount = Cardinality(objects[b])
                         /\ entry.hasObjects <=> objects[b] # {}

\* Two buckets are returned: the lookup of the first failed, the second has
\* an object.
C17_Witness ==
    /\ listing.pc = "returned"
    /\ Len(listing.result) >= 2
    /\ listing.observed[1] = "ServiceUnavailable"
    /\ listing.observed[2] = "ok"
    /\ listing.result[2].objectCount = 1
    /\ listing.result[1].region = "unknown"

\* ------------------------------------------------ claims on POST /buckets
CreateAnswered(outcomes) ==
    /\ creation.pc = "done" /\ creation.calls # <<>>
    /\ creation.calls[1].outcome \in outcomes

\* C18: createBucket fails AlreadyExists when the provider answers
\* BucketAlreadyExists or BucketAlreadyOwnedByYou, and the route replies 409;
\* any other failure of the call fails as "Failed to create bucket" and the
\* route replies 500; a name validateBucketName rejects causes no
\* CreateBucket call.
C18_ConflictOrUnavailable ==
    /\ CreateAnswered({"BucketAlreadyExists", "BucketAlreadyOwnedByYou"}) =>
          /\ creation.error.thrown
          /\ creation.error.message \in {<<Lit("Bucket name already exists")>>,
                                         <<Lit("Bucket already owned by you")>>}
          /\ creation.reply.status = 409 /\ ~creation.reply.success
    /\ CreateAnswered({"ServiceUnavailable", "AccessDenied"}) =>
          /\ creation.error.thrown
          /\ creation.error.message[1] = Lit("Failed to create bucket: ")
          /\ creation.reply.status = 500 /\ ~creation.reply.success
    /\ creation # <<>> /\ ~WellFormedBucketName(creation.name) =>
          /\ creation.calls = <<>>
          /\ creation.pc # "CreateBucket"
          /\ creation.pc = "done" => ~creation.reply.success
    /\ creation # <<>> => Len(creation.calls) <= 1

\* The caller owns the bucket already: conflict.
C18_Witness ==
    /\ CreateAnswered({"BucketAlreadyOwnedByYou"})
    /\ creation.reply.status = 409
    /\ creation.name.chars \in buckets

\* ------------------------------------ more claims on the delete routes
\* The plain delete of request k listed the access points after DeleteBucket
\* was refused for them, and the listing gave none.
ListedNone(k) ==
    /\ Finished(k, "deleteBucket") /\ Len(calls[k]) = 3
    /\ calls[k][2].outcome = "AccessPointsAttached"
    /\ calls[k][3].cmd = "ListAccessPoints"
    /\ apList[k] = <<>>

\* C21: a plain delete refused for the access points attached, with an
\* account id configured and a listing of zero access points, fails
\* Unavailable: it does not succeed, reports no blocking access points, and
\* the bucket is not deleted.
C21_EmptyListingFails ==
    \A k \in Requests :
        ListedNone(k) =>
            /\ accountId # ""
            /\ error[k].thrown /\ error[k].code = NoCode
            /\ error[k].message =
                   <<Lit("Failed to delete bucket: ")>> \o ProviderMessage("AccessPointsAttached")
            /\ ~reply[k].success /\ reply[k].status = 500
            /\ reply[k].code = NoCode /\ reply[k].accessPoints = <<>>
            /\ atReturn[k].exists = atReturn[k].before.exists

\* The listing call failed, so listAccessPoints gave the empty list while
\* the bucket holds two access points.
C21_Witness ==
    \E k \in Requests :
        /\ ListedNone(k)
        /\ calls[k][3].outcome = "ServiceUnavailable"
        /\ Len(atReturn[k].aps) = 2
        /\ reply[k].status = 500



\* C27 as stated: forced delete issues DeleteBucket only once every access
\* point the bucket had when the operation listed them has been deleted, also
\* when the listing itself failed.
C27_DeleteBucketOnlyWithoutAccessPoints ==
    \A k \in Requests :
        op[k] = "forceDelete" /\ Issued(k, "DeleteBucket") =>
            Cardinality(removed[k]) >= calls[k][1].held

MutatingCommands == {"CreateBucket", "DeleteBucket", "DeleteAccessPoint", "PutObject", "DeleteObject"}

IssuedOnce(k) ==
    \A p, q \in 1..Len(calls[k]) :
        /\ p < q
        /\ calls[k][p].cmd \in MutatingCommands
        /\ calls[k][p].cmd = calls[k][q].cmd
        => calls[k][p].arg # calls[k][q].arg

\* C25 as stated: one invocation issues each mutating provider call at most
\* once, and a failed step ends the operation: no mutating call follows it and
\* the caller is told of a failure.
C25_NoRetryFailedStepReported ==
    \A k \in Requests :
        /\ IssuedOnce(k)
        /\ \A p \in 1..Len(calls[k]) :
               calls[k][p].outcome # "ok" =>
                   /\ \A q \in (p + 1)..Len(calls[k]) :
                          calls[k][q].cmd \notin MutatingCommands
                   /\ pc[k] = "done" => error[k].thrown /\ ~reply[k].success

\* C24: the DeleteAccessPoint calls of a forced delete are sequential: at
\* most one is in flight, the i-th call names the i-th listed access point,
\* and a call is sent only when every earlier one has returned successfully.
C24_OneAtATimeInListingOrder ==
    \A k \in Requests :
        op[k] = "forceDelete" =>
            /\ Cardinality(InFlight(k)) <= 1
            /\ \A p \in 2..Len(calls[k]) :
                   calls[k][p].cmd = "DeleteAccessPoint" =>
                       /\ p - 1 <= Len(apList[k])
                       /\ calls[k][p].arg = apList[k][p - 1]
                       /\ \A q \in 2..(p - 1) :
                              calls[k][q] =
                                  Call("DeleteAccessPoint", apList[k][q - 1], "ok", 0)

\* The second of two listed access points is in flight, the first is gone.
C24_Witness ==
    \E k \in Requests :
        /\ op[k] = "forceDelete" /\ Len(apList[k]) = 2 /\ Len(calls[k]) = 3
        /\ calls[k][2] = Call("DeleteAccessPoint", apList[k][1], "ok", 0)
        /\ calls[k][3] = Call("DeleteAccessPoint", apList[k][2], "pending", 0)
        /\ apList[k][1] \in removed[k]

\* Number of pages of a bucket of n objects: at least one listing is needed.
Pages(n) == IF n = 0 THEN 1 ELSE (n + MaxKeys - 1) \div MaxKeys

SizeCallsOk == \A p \in 1..Len(sizing.calls) : sizing.calls[p].outcome = "ok"

\* C22 as stated: calculateBucketSize terminates when every listing call
\* returns, also for a truncated listing: the loop makes at most one listing
\* call per page of the bucket.
C22_OneListingPerPage ==
    Len(sizing.calls) <= Pages(Len(sizing.objects))

\* C23 as stated: every listing call after the first is sent the
\* continuation token of the page before it; when no call fails the result is
\* the sum of the sizes of all objects, each counted once (the running total
\* never exceeds that sum); when a call fails the result is 0.
C23_SumOfAllSizesOrZero ==
    /\ \A p \in 2..Len(sizing.calls) :
           sizing.calls[p].token = sizing.calls[p - 1].next
    /\ sizing.totalSize <= Sum(sizing.objects)
    /\ sizing.pc = "done" =>
           sizing.result = IF SizeCallsOk THEN Sum(sizing.objects) ELSE 0

\* C26 as stated: a successful download of an existing object returns its
\* body with its content type, length, ETag and metadata as the provider
\* stores them, and the ETag header of the reply is the ETag of the object.
C26_DownloadReturnsObjectWithETag ==
    download.pc = "done" /\ download.reply.success =>
        \E o \in contents :
            /\ o.key = download.key
            /\ Get(download.fileData, "body") = o.body
            /\ Get(download.fileData, "contentType") = o.contentType
            /\ Get(download.fileData, "contentLength") = o.body
            /\ Get(download.fileData, "etag") = ETagOf(o.body)
            /\ Get(download.fileData, "metadata") = o.metadata
            /\ download.reply.body = o.body
            /\ download.reply.contentType = o.contentType
            /\ download.reply.contentLength = o.body
            /\ download.reply.etag = ETagOf(o.body)

ClientKeyServed == candidate.kind = "clientKey" /\ verdict # <<>>

\* C28 as stated: for every key the key validator accepts, the client's
\* download, delete and metadata calls each make the server address the
\* object with exactly that key.
C28_KeyRoundTrip ==
    ClientKeyServed /\ fileKeySchema(candidate.value) =>
        /\ verdict.status = 200
        /\ verdict.key = candidate.value

\* C29 as stated: every key the delete and metadata routes pass to the
\* provider is a key the key validator accepts.
C29_OnlyValidKeysReachProvider ==
    ClientKeyServed /\ verdict.cmd \in {"DeleteObject", "HeadObject"} =>
        fileKeySchema(verdict.key)

\* The part of a content type before its first '/'.
MajorType(t) ==
    IF \E i \in 1..Len(t) : t[i] = "/"
    THEN SubSeq(t, 1, (CHOOSE i \in 1..Len(t) :
                          t[i] = "/" /\ \A j \in 1..(i - 1) : t[j] # "/") - 1)
    ELSE t

\* The content types the claim lets through.
TypeAllowedAsClaimed(t, allowed) ==
    \/ <<"*", "/", "*">> \in allowed
    \/ t \in allowed
    \/ \E w \in allowed : IsWildcard(w) /\ MajorType(w) = MajorType(t)

\* C30 as stated: validateFileType accepts a content type exactly when the
\* allowed list holds '*/*', that content type, or a wildcard of its major
\* type; it rejects every other with a 'not allowed' error, and the upload
\* route issues no PutObject for it.
C30_AcceptsExactlyAllowedTypes ==
    LET t == candidate.value.chars
        asClaimed == TypeAllowedAsClaimed(t, candidate.allowed)
    IN /\ candidate.kind = "fileType" /\ verdict # <<>> =>
              /\ ~verdict.thrown <=> asClaimed
              /\ verdict.thrown => Includes(verdict.message, "not allowed")
       /\ candidate.kind = "upload" /\ verdict # <<>> /\ ~asClaimed =>
              verdict.issued = <<>> /\ verdict.status = 400

====
